---- MODULE Spec2Model ----
(***************************************************************************)
(* RADIUS management API (api-service).                                    *)
(*                                                                         *)
(*   app.py       the primary service: raw SQL on the RADIUS tables        *)
(*                radgroupcheck, radgroupreply, radcheck, radusergroup,    *)
(*                nas (written here) and radacct (written by the RADIUS    *)
(*                accounting process, read here).                          *)
(*   test_app.py  the in-memory service (module-level dictionaries).       *)
(*   app111.py    the stateless mock service.                              *)
(*                                                                         *)
(* A table is the sequence of its rows in storage (auto-increment) order.  *)
(* A transaction's statements take effect on the committed tables at its   *)
(* commit, in one step; until then no other connection sees them.          *)
(***************************************************************************)
EXTENDS Integers, Sequences, FiniteSets, TLC

(***************************************************************************)
(* Request inputs.                                                         *)
(***************************************************************************)
PackageNames == {"basic", "gold"}
Pools        == {"poolA"}
UserNames    == {"alice", "bob"}
Passwords    == {"pw123"}
ExpDates     == {"2025-12-31"}
NasNames     == {"10.0.0.1"}

\* Pagination inputs are path integers: -1 .. MaxPage.
MaxPage == 2
PageInts == -1 .. MaxPage

\* The RADIUS accounting process writes at most MaxSessions sessions.
MaxSessions == 2

\* Request workers of the service (uvicorn handles requests concurrently).
Workers == {1, 2}

NULL == "NULL"
StopTime == "2024-08-30 12:00:00"

BEARER_TOKEN == "your-secret-bearer-token-here"
NoCredentials == "<no Authorization header>"
Credentials == {BEARER_TOKEN, "wrong-token", NoCredentials}

\* test_app.py: the package its lifespan stores, and the range of
\* hash(username) % 10000 (hash() of a string is salted per process).
basic_package == [package |-> "basic_package", pool |-> "basic_pool",
                  profile |-> "basic_profile"]
HashValues == {0, 9999}

VARIABLES
    db,               \* the MySQL database: table name -> sequence of rows
    req,              \* req[w]: the request worker w is handling, and its progress
    mock_users,       \* test_app.py: dictionary, as its items in insertion order
    mock_packages,    \* test_app.py: dictionary, as its items in insertion order
    mock_accounting,  \* test_app.py: dictionary, as its items in insertion order
    answers,          \* the three services' answers to the last lock-step request
    connection_pool,  \* the number of connections in the pool's queue
    conn,             \* conn[w]: connections held by the store operation of worker w
    dbm,              \* dbm[w]: the DatabaseManager operation worker w is running
    others            \* connections held by the operations of other requests

lockstep == <<mock_users, mock_packages, mock_accounting, answers>>
pooling == <<connection_pool, conn, dbm, others>>
vars == <<db, req, mock_users, mock_packages, mock_accounting, answers,
          connection_pool, conn, dbm, others>>

(***************************************************************************)
(* Responses.                                                              *)
(***************************************************************************)
Response(status, body) == [status |-> status, body |-> body]
StatusResponse(status, message) == Response(status, [message |-> message])
HTTPException(status, detail) == Response(status, [detail |-> detail])
PaginatedResponse(count, data) == Response(200, [count |-> count, data |-> data])

\* mysql.connector.Error texts (str(e)) the store can raise.
ServerFault == "2013 Lost connection to MySQL server"
SyntaxFault == "1064 You have an error in your SQL syntax"

(***************************************************************************)
(* The authentication gate.                                                *)
(***************************************************************************)
\* security = HTTPBearer(): the exceptions the dependency raises by itself,
\* before verify_token runs. Without credentials FastAPI answers 403
\* "Not authenticated" up to 0.121 and 401 from 0.122 on.
HTTPBearer(cred) ==
    IF cred = NoCredentials
    THEN {HTTPException(403, "Not authenticated"),
          HTTPException(401, "Not authenticated")}
    ELSE {}

\* verify_token: the exceptions the dependency chain can raise for one
\* presented credential; none lets the handler body run.
verify_token(cred) ==
    IF HTTPBearer(cred) # {} THEN HTTPBearer(cred)
    ELSE IF cred # BEARER_TOKEN
         THEN {HTTPException(401, "Invalid authentication token")}
         ELSE {}

Authorized(cred) == verify_token(cred) = {}

(***************************************************************************)
(* SQL on the tables.                                                      *)
(***************************************************************************)
EmptyDb == [radgroupcheck |-> <<>>, radgroupreply |-> <<>>, radcheck |-> <<>>,
            radusergroup |-> <<>>, nas |-> <<>>, radacct |-> <<>>]

\* The tables this API writes (radacct belongs to the accounting process).
Tables(d) == <<d.radgroupcheck, d.radgroupreply, d.radcheck, d.radusergroup, d.nas>>

\* SELECT COUNT(*) ... WHERE <column> = value
CountWhere(table, column, value) ==
    Len(SelectSeq(table, LAMBDA r : r[column] = value))

\* DELETE FROM table WHERE <column> = value
DeleteWhere(table, column, value) ==
    SelectSeq(table, LAMBDA r : r[column] # value)

Insert(table, row) == [op |-> "INSERT", table |-> table, row |-> row]
Delete(table, column, value) ==
    [op |-> "DELETE", table |-> table, column |-> column, value |-> value]

\* cursor.execute(query, params) of one write statement.
Execute(d, q) ==
    IF q.op = "INSERT"
    THEN [d EXCEPT ![q.table] = Append(@, q.row)]
    ELSE [d EXCEPT ![q.table] = DeleteWhere(@, q.column, q.value)]

RECURSIVE ExecuteAll(_, _)
ExecuteAll(d, queries) ==
    IF queries = <<>> THEN d
    ELSE ExecuteAll(Execute(d, Head(queries)), Tail(queries))

GroupRow(groupname, attribute, op, value) ==
    [groupname |-> groupname, attribute |-> attribute, op |-> op, value |-> value]
CheckRow(username, attribute, op, value) ==
    [username |-> username, attribute |-> attribute, op |-> op, value |-> value]

\* create_package: queries
PackageQueries(package, pool) ==
    << Insert("radgroupcheck", GroupRow(package, "Simultaneous-Use", ":=", "1")),
       Insert("radgroupreply", GroupRow(package, "Framed-Pool", "=", pool)),
       Insert("radgroupreply", GroupRow(package, "Acct-Interim-Interval", "=", "120")) >>

\* create_user without the insert of the Expiration row.
UserQueriesNoExpiration(username, passwd, expdate, package) ==
    << Insert("radcheck", CheckRow(username, "Cleartext-Password", ":=", passwd)),
       Insert("radusergroup", [username |-> username, groupname |-> package]) >>

\* create_user: queries
UserQueries(username, passwd, expdate, package) ==
    << Insert("radcheck", CheckRow(username, "Cleartext-Password", ":=", passwd)),
       Insert("radcheck", CheckRow(username, "Expiration", ":=", expdate)),
       Insert("radusergroup", [username |-> username, groupname |-> package]) >>

\* delete_user without the membership delete.
DeleteQueriesCheckOnly(username) ==
    << Delete("radcheck", "username", username) >>

\* delete_user deleting the accounting rows of the user as well.
DeleteQueriesAndAccounting(username) ==
    << Delete("radcheck", "username", username),
       Delete("radusergroup", "username", username),
       Delete("radacct", "username", username) >>

\* delete_user: queries
DeleteQueries(username) ==
    << Delete("radcheck", "username", username),
       Delete("radusergroup", "username", username) >>

\* The statements of the transaction a request runs.
Queries(r) ==
    CASE r.route = "create_package" -> PackageQueries(r.args.package, r.args.pool)
      [] r.route = "create_user" ->
            UserQueries(r.args.username, r.args.passwd, r.args.expdate, r.args.package)
      [] r.route = "delete_user" -> DeleteQueries(r.args.username)

\* The message of the transaction's success.
Created(r) ==
    CASE r.route = "create_package" -> StatusResponse(201, "Package created successfully")
      [] r.route = "create_user" -> StatusResponse(201, "User created successfully")
      [] r.route = "delete_user" -> StatusResponse(200, "User deleted successfully")

(***************************************************************************)
(* Requests.                                                               *)
(***************************************************************************)
NoArgs == [none |-> TRUE]
Idle == [route |-> "none", cred |-> NoCredentials, args |-> NoArgs,
         pc |-> "idle", k |-> 0, count |-> 0, result |-> "none",
         resp |-> Response(0, NoArgs)]

\* A worker can take a new request once it has answered the last one.
Free(w) == req[w].pc \in {"idle", "done"}

Request(route, cred, args) ==
    [route |-> route, cred |-> cred, args |-> args, pc |-> "idle", k |-> 0,
     count |-> 0, result |-> "none", resp |-> Response(0, NoArgs)]

Reply(r, resp) == [r EXCEPT !.pc = "done", !.resp = resp]

\* The routes declared with Depends(verify_token).
ProtectedRoutes ==
    {"create_package", "get_packages", "create_user", "get_user", "delete_user",
     "get_online_users", "get_online_count", "get_user_online_status",
     "create_nas", "disconnect_session"}

\* A request to a protected route stopped by the authentication gate: the
\* dependency raises and the handler body never runs.
unauthorized(w, route, cred) ==
    /\ Free(w)
    /\ UNCHANGED <<lockstep, pooling>>
    /\ \E e \in verify_token(cred) :
            req' = [req EXCEPT ![w] = Reply(Request(route, cred, NoArgs), e)]
    /\ UNCHANGED db

\* DatabaseManager.execute_query failing: rollback, HTTPException 500.
QueryFailed(w, r, e) ==
    /\ req' = [req EXCEPT ![w] = Reply(r, HTTPException(500, "Database error: " \o e))]
    /\ UNCHANGED db

\* No lock-step request yet.
NoAnswers == [route |-> "none", args |-> NoArgs, app_py |-> Response(0, NoArgs),
              test_app |-> Response(0, NoArgs), app111 |-> Response(0, NoArgs)]

\* test_app.py after its lifespan has started: one package, no user.
lifespan ==
    /\ mock_users = <<>>
    /\ mock_packages = << basic_package >>
    /\ mock_accounting = <<>>
    /\ answers = NoAnswers

\* pooling.MySQLConnectionPool(pool_size=10, ...)
pool_size == 10

\* No exception raised (0 is not a status code).
NoException == HTTPException(0, "")

\* The pool as constructed, no store operation running.
MySQLConnectionPool ==
    /\ connection_pool = pool_size
    /\ conn = [w \in Workers |-> 0]
    /\ dbm = [w \in Workers |-> [method |-> "none", pc |-> "idle", raised |-> NoException]]
    /\ others = 0

Init ==
    /\ db = EmptyDb
    /\ req = [w \in Workers |-> Idle]
    /\ lifespan
    /\ MySQLConnectionPool

(***************************************************************************)
(* DatabaseManager.execute_transaction, one statement at a time.           *)
(***************************************************************************)
\* A connection left in autocommit: the executed statements stay.
RollbackAutocommit(d, executed) == ExecuteAll(d, executed)

\* except mysql.connector.Error: conn.rollback(): the statements executed so
\* far on the connection are discarded.
Rollback(d, executed) == d

\* conn.commit(): the executed statements become the committed tables.
Commit(d, executed) == ExecuteAll(d, executed)

\* cursor.execute of the next statement, or its failure.
TxnExecute(w) ==
    /\ req[w].pc = "txn"
    /\ UNCHANGED <<lockstep, pooling>>
    /\ req[w].k < Len(Queries(req[w]))
    /\ \/ /\ req' = [req EXCEPT ![w].k = @ + 1]
          /\ UNCHANGED db
       \/ /\ db' = Rollback(db, SubSeq(Queries(req[w]), 1, req[w].k))
          /\ req' = [req EXCEPT ![w] =
                Reply(@, HTTPException(500, "Transaction failed: " \o ServerFault))]

\* conn.commit() after the last statement, or its failure.
TxnCommit(w) ==
    /\ req[w].pc = "txn"
    /\ UNCHANGED <<lockstep, pooling>>
    /\ req[w].k = Len(Queries(req[w]))
    /\ \/ /\ db' = Commit(db, Queries(req[w]))
          /\ req' = [req EXCEPT ![w] = Reply(@, Created(@))]
       \/ /\ db' = Rollback(db, Queries(req[w]))
          /\ req' = [req EXCEPT ![w] =
                Reply(@, HTTPException(500, "Transaction failed: " \o ServerFault))]

(***************************************************************************)
(* Package management.                                                     *)
(***************************************************************************)
\* POST /package without the existence check.
create_package_unchecked(w, cred, package, pool) ==
    /\ Free(w)
    /\ UNCHANGED <<lockstep, pooling>>
    /\ Authorized(cred)
    /\ req' = [req EXCEPT ![w] = [Request("create_package", cred,
                    [package |-> package, pool |-> pool]) EXCEPT !.pc = "txn"]]
    /\ UNCHANGED db

\* POST /package: the existence check; the inserts follow as a transaction.
create_package(w, cred, package, pool) ==
    LET r == Request("create_package", cred, [package |-> package, pool |-> pool])
    IN /\ Free(w)
       /\ UNCHANGED <<lockstep, pooling>>
       /\ Authorized(cred)
       /\ \/ QueryFailed(w, r, ServerFault)
          \/ /\ CountWhere(db.radgroupcheck, "groupname", package) > 0
             /\ req' = [req EXCEPT ![w] =
                            Reply(r, HTTPException(400, "Package already exists"))]
             /\ UNCHANGED db
          \/ /\ CountWhere(db.radgroupcheck, "groupname", package) = 0
             /\ req' = [req EXCEPT ![w] = [r EXCEPT !.pc = "txn"]]
             /\ UNCHANGED db

\* SELECT DISTINCT groupname ... GROUP BY groupname: one row per group name,
\* in the order the names first occur in the table.
RECURSIVE DistinctGroupnames(_)
DistinctGroupnames(table) ==
    IF table = <<>> THEN <<>>
    ELSE LET rest == DistinctGroupnames(SubSeq(table, 1, Len(table) - 1))
             g == table[Len(table)].groupname
         IN IF \E i \in 1 .. Len(rest) : rest[i].groupname = g
            THEN rest
            ELSE Append(rest, [groupname |-> g])

\* LIMIT taken as the index of the last row.
LimitAsEnd(rows, limit, offset) ==
    SubSeq(rows, offset + 1, IF limit < Len(rows) THEN limit ELSE Len(rows))

\* ... LIMIT limit OFFSET offset, both non-negative.
Limit(rows, limit, offset) ==
    SubSeq(rows, offset + 1,
           IF offset + limit < Len(rows) THEN offset + limit ELSE Len(rows))

\* GET /package/{limit}/{offset}: the count query.
get_packages(w, cred, limit, offset) ==
    LET r == Request("get_packages", cred, [limit |-> limit, offset |-> offset])
    IN /\ Free(w)
       /\ UNCHANGED <<lockstep, pooling>>
       /\ Authorized(cred)
       /\ \/ QueryFailed(w, r, ServerFault)
          \/ /\ req' = [req EXCEPT ![w] = [r EXCEPT !.pc = "page",
                            !.count = Len(DistinctGroupnames(db.radgroupcheck))]]
             /\ UNCHANGED db

\* GET /package/{limit}/{offset}: the page query. MySQL rejects a negative
\* LIMIT or OFFSET as a syntax error.
get_packages_page(w) ==
    LET r == req[w]
    IN /\ r.pc = "page"
       /\ UNCHANGED <<lockstep, pooling>>
       /\ \/ QueryFailed(w, r, ServerFault)
          \/ /\ r.args.limit < 0 \/ r.args.offset < 0
             /\ QueryFailed(w, r, SyntaxFault)
          \/ /\ r.args.limit >= 0 /\ r.args.offset >= 0
             /\ req' = [req EXCEPT ![w] = Reply(r, PaginatedResponse(r.count,
                            Limit(DistinctGroupnames(db.radgroupcheck),
                                  r.args.limit, r.args.offset)))]
             /\ UNCHANGED db

(***************************************************************************)
(* User management.                                                        *)
(***************************************************************************)
\* POST /user: the existence check; the inserts follow as a transaction.
create_user(w, cred, username, passwd, expdate, package) ==
    LET r == Request("create_user", cred,
                     [username |-> username, passwd |-> passwd,
                      expdate |-> expdate, package |-> package])
    IN /\ Free(w)
       /\ UNCHANGED <<lockstep, pooling>>
       /\ Authorized(cred)
       /\ \/ QueryFailed(w, r, ServerFault)
          \/ /\ CountWhere(db.radcheck, "username", username) > 0
             /\ req' = [req EXCEPT ![w] =
                            Reply(r, HTTPException(400, "User already exists"))]
             /\ UNCHANGED db
          \/ /\ CountWhere(db.radcheck, "username", username) = 0
             /\ req' = [req EXCEPT ![w] = [r EXCEPT !.pc = "txn"]]
             /\ UNCHANGED db

\* SELECT username, value FROM radcheck WHERE username = %s
UserValues(table, username) ==
    LET rows == SelectSeq(table, LAMBDA r : r.username = username)
    IN [i \in 1 .. Len(rows) |-> [username |-> rows[i].username, value |-> rows[i].value]]

\* GET /user/{username}
get_user(w, cred, username) ==
    LET r == Request("get_user", cred, [username |-> username])
        users == UserValues(db.radcheck, username)
    IN /\ Free(w)
       /\ UNCHANGED <<lockstep, pooling>>
       /\ Authorized(cred)
       /\ \/ QueryFailed(w, r, ServerFault)
          \/ /\ req' = [req EXCEPT ![w] = Reply(r,
                            IF users = <<>> THEN HTTPException(404, "User not found")
                            ELSE Response(200, [logdata |-> users]))]
             /\ UNCHANGED db

\* DELETE /user/{username}: the existence check; the deletes follow as a
\* transaction.
delete_user(w, cred, username) ==
    LET r == Request("delete_user", cred, [username |-> username])
    IN /\ Free(w)
       /\ UNCHANGED <<lockstep, pooling>>
       /\ Authorized(cred)
       /\ \/ QueryFailed(w, r, ServerFault)
          \/ /\ CountWhere(db.radcheck, "username", username) = 0
             /\ req' = [req EXCEPT ![w] =
                            Reply(r, HTTPException(404, "User not found"))]
             /\ UNCHANGED db
          \/ /\ CountWhere(db.radcheck, "username", username) # 0
             /\ req' = [req EXCEPT ![w] = [r EXCEPT !.pc = "txn"]]
             /\ UNCHANGED db

(***************************************************************************)
(* Online status.                                                          *)
(***************************************************************************)
\* SELECT radacctid, username, ... FROM radacct WHERE acctstoptime IS NULL
OnlineRows(radacct) ==
    LET rows == SelectSeq(radacct, LAMBDA r : r.acctstoptime = NULL)
    IN [i \in 1 .. Len(rows) |->
            [radacctid |-> rows[i].radacctid, username |-> rows[i].username]]

\* The count without the WHERE clause.
OnlineCountAll(radacct) == Len(radacct)

\* SELECT COUNT(*) FROM radacct WHERE acctstoptime IS NULL
OnlineCount(radacct) ==
    Len(SelectSeq(radacct, LAMBDA r : r.acctstoptime = NULL))

\* The count without the username condition.
UserOnlineCountAnyUser(radacct, username) ==
    Len(SelectSeq(radacct, LAMBDA r : r.acctstoptime = NULL))

\* SELECT COUNT(*) FROM radacct WHERE username = %s AND acctstoptime IS NULL
UserOnlineCount(radacct, username) ==
    Len(SelectSeq(radacct, LAMBDA r : r.username = username /\ r.acctstoptime = NULL))

\* GET /online
get_online_users(w, cred) ==
    LET r == Request("get_online_users", cred, NoArgs)
    IN /\ Free(w)
       /\ UNCHANGED <<lockstep, pooling>>
       /\ Authorized(cred)
       /\ \/ QueryFailed(w, r, ServerFault)
          \/ /\ req' = [req EXCEPT ![w] =
                            Reply(r, Response(200, OnlineRows(db.radacct)))]
             /\ UNCHANGED db

\* GET /onlinecount
get_online_count(w, cred) ==
    LET r == Request("get_online_count", cred, NoArgs)
    IN /\ Free(w)
       /\ UNCHANGED <<lockstep, pooling>>
       /\ Authorized(cred)
       /\ \/ QueryFailed(w, r, ServerFault)
          \/ /\ req' = [req EXCEPT ![w] = Reply(r,
                            Response(200, [total_online |-> OnlineCount(db.radacct)]))]
             /\ UNCHANGED db

\* GET /online/{username}: the user query.
get_user_online_status(w, cred, username) ==
    LET r == Request("get_user_online_status", cred, [username |-> username])
    IN /\ Free(w)
       /\ UNCHANGED <<lockstep, pooling>>
       /\ Authorized(cred)
       /\ \/ QueryFailed(w, r, ServerFault)
          \/ /\ CountWhere(db.radcheck, "username", username) = 0
             /\ req' = [req EXCEPT ![w] =
                            Reply(r, HTTPException(404, "User not found"))]
             /\ UNCHANGED db
          \/ /\ CountWhere(db.radcheck, "username", username) # 0
             /\ req' = [req EXCEPT ![w] = [r EXCEPT !.pc = "online"]]
             /\ UNCHANGED db

\* GET /online/{username}: the online query.
get_user_online_status_online(w) ==
    LET r == req[w]
    IN /\ r.pc = "online"
       /\ UNCHANGED <<lockstep, pooling>>
       /\ \/ QueryFailed(w, r, ServerFault)
          \/ /\ req' = [req EXCEPT ![w] = Reply(r, Response(200,
                    [status |-> IF UserOnlineCount(db.radacct, r.args.username) > 0
                                THEN "Online" ELSE "Offline"]))]
             /\ UNCHANGED db

(***************************************************************************)
(* NAS management, session disconnect, root and health.                    *)
(***************************************************************************)
\* POST /nas: the existence check.
create_nas(w, cred, nasname) ==
    LET r == Request("create_nas", cred,
                     [nasname |-> nasname, shortname |-> "nas", type |-> "other",
                      secret |-> "secret", description |-> "RADIUS Client"])
    IN /\ Free(w)
       /\ UNCHANGED <<lockstep, pooling>>
       /\ Authorized(cred)
       /\ \/ QueryFailed(w, r, ServerFault)
          \/ /\ CountWhere(db.nas, "nasname", nasname) > 0
             /\ req' = [req EXCEPT ![w] =
                            Reply(r, HTTPException(400, "NAS already exists"))]
             /\ UNCHANGED db
          \/ /\ CountWhere(db.nas, "nasname", nasname) = 0
             /\ req' = [req EXCEPT ![w] = [r EXCEPT !.pc = "insert"]]
             /\ UNCHANGED db

\* POST /nas: the insert, one statement committed by execute_query. The
\* route declares no status code, so success is 200.
create_nas_insert(w) ==
    LET r == req[w]
    IN /\ r.pc = "insert"
       /\ UNCHANGED <<lockstep, pooling>>
       /\ \/ QueryFailed(w, r, ServerFault)
          \/ /\ db' = Execute(db, Insert("nas", r.args))
             /\ req' = [req EXCEPT ![w] =
                            Reply(r, StatusResponse(200, "NAS created successfully"))]

\* subprocess.run(cmd, shell=True, timeout=30): what one radclient run does.
RadclientOutcomes == {"exit 0", "exit 1", "TimeoutExpired", "OSError"}

\* The answer without the test of result.returncode.
disconnect_response_unchecked(run) ==
    CASE run \in {"exit 0", "exit 1"} ->
            StatusResponse(200, "User session disconnected successfully")
      [] run = "TimeoutExpired" ->
            HTTPException(500, "Session disconnect timeout")
      [] run = "OSError" ->
            HTTPException(500, "Session disconnect failed: OSError")

\* The answer of disconnect_session to the outcome of subprocess.run.  The
\* HTTPException of a non-zero exit code is raised inside the try and caught
\* by except Exception, which raises it again with the longer detail.
disconnect_response(run) ==
    CASE run = "exit 0" ->
            StatusResponse(200, "User session disconnected successfully")
      [] run = "exit 1" ->
            HTTPException(500, "Session disconnect failed: " \o
                               "500: Session disconnect failed")
      [] run = "TimeoutExpired" ->
            HTTPException(500, "Session disconnect timeout")
      [] run = "OSError" ->
            HTTPException(500, "Session disconnect failed: OSError")

\* POST /session-dis: one subprocess.run(cmd, ..., timeout=30); k counts the
\* calls of subprocess.run and result is their outcome.
disconnect_session(w, cred, run) ==
    LET r == Request("disconnect_session", cred,
                     [session |-> "sess-1", nas |-> "10.0.0.1"])
    IN /\ Free(w)
       /\ UNCHANGED <<lockstep, pooling>>
       /\ Authorized(cred)
       /\ req' = [req EXCEPT ![w] =
                    Reply([r EXCEPT !.k = 1, !.result = run], disconnect_response(run))]
       /\ UNCHANGED db

\* GET /
root(w) ==
    /\ Free(w)
    /\ UNCHANGED <<lockstep, pooling>>
    /\ req' = [req EXCEPT ![w] = Reply(Request("root", NoCredentials, NoArgs),
                    StatusResponse(200, "RADIUS Management API is running"))]
    /\ UNCHANGED db

\* GET /health: SELECT 1 (the timestamp is left out).
health_check(w, db_status) ==
    /\ Free(w)
    /\ UNCHANGED <<lockstep, pooling>>
    /\ req' = [req EXCEPT ![w] = Reply(Request("health_check", NoCredentials, NoArgs),
                    Response(200, [status |-> IF db_status = "connected"
                                              THEN "healthy" ELSE "unhealthy",
                                   database |-> db_status]))]
    /\ UNCHANGED db

(***************************************************************************)
(* The RADIUS accounting process (external): the only writer of radacct.   *)
(***************************************************************************)
AcctStart(username) ==
    /\ Len(db.radacct) < MaxSessions
    /\ UNCHANGED <<lockstep, pooling>>
    /\ db' = [db EXCEPT !.radacct = Append(@,
                [radacctid |-> Len(@) + 1, username |-> username,
                 acctstoptime |-> NULL])]
    /\ UNCHANGED req

AcctStop(i) ==
    /\ i <= Len(db.radacct)
    /\ UNCHANGED <<lockstep, pooling>>
    /\ db.radacct[i].acctstoptime = NULL
    /\ db' = [db EXCEPT !.radacct[i].acctstoptime = StopTime]
    /\ UNCHANGED req

(***************************************************************************)
(* The service.                                                            *)
(***************************************************************************)
\* Every route of the API, requests handled one at a time by worker 1.
Next ==
    \/ \E cred \in Credentials :
        \/ \E package \in PackageNames, pool \in Pools :
                create_package(1, cred, package, pool)
        \/ \E limit \in PageInts, offset \in PageInts :
                get_packages(1, cred, limit, offset)
        \/ \E username \in UserNames, passwd \in Passwords, expdate \in ExpDates,
              package \in PackageNames :
                create_user(1, cred, username, passwd, expdate, package)
        \/ \E username \in UserNames : get_user(1, cred, username)
        \/ \E username \in UserNames : delete_user(1, cred, username)
        \/ get_online_users(1, cred)
        \/ get_online_count(1, cred)
        \/ \E username \in UserNames : get_user_online_status(1, cred, username)
        \/ \E nasname \in NasNames : create_nas(1, cred, nasname)
        \/ \E run \in RadclientOutcomes : disconnect_session(1, cred, run)
        \/ \E route \in ProtectedRoutes : unauthorized(1, route, cred)
    \/ get_packages_page(1)
    \/ TxnExecute(1)
    \/ TxnCommit(1)
    \/ get_user_online_status_online(1)
    \/ create_nas_insert(1)
    \/ root(1)
    \/ \E db_status \in {"connected", "error: " \o ServerFault} :
            health_check(1, db_status)

Spec == Init /\ [][Next]_vars

\* The user and online routes, requests handled one at a time by worker 1,
\* while the RADIUS accounting process writes radacct.
AcctNext ==
    \/ \E username \in UserNames, passwd \in Passwords, expdate \in ExpDates :
            create_user(1, BEARER_TOKEN, username, passwd, expdate, "basic")
    \/ \E username \in UserNames : get_user(1, BEARER_TOKEN, username)
    \/ \E username \in UserNames : delete_user(1, BEARER_TOKEN, username)
    \/ TxnExecute(1)
    \/ TxnCommit(1)
    \/ get_online_users(1, BEARER_TOKEN)
    \/ get_online_count(1, BEARER_TOKEN)
    \/ \E username \in UserNames : get_user_online_status(1, BEARER_TOKEN, username)
    \/ get_user_online_status_online(1)
    \/ \E username \in UserNames : AcctStart(username)
    \/ \E i \in 1 .. MaxSessions : AcctStop(i)

AcctSpec == Init /\ [][AcctNext]_vars

\* Requests that write the tables, handled concurrently by the workers: they
\* race on one package name, one user name and one NAS name.
ConcNext ==
    \E w \in Workers :
        \/ \E pool \in Pools : create_package(w, BEARER_TOKEN, "basic", pool)
        \/ \E passwd \in Passwords, expdate \in ExpDates :
                create_user(w, BEARER_TOKEN, "alice", passwd, expdate, "basic")
        \/ delete_user(w, BEARER_TOKEN, "alice")
        \/ TxnExecute(w)
        \/ TxnCommit(w)
        \/ \E nasname \in NasNames : create_nas(w, BEARER_TOKEN, nasname)
        \/ create_nas_insert(w)

ConcSpec == Init /\ [][ConcNext]_vars

\* The routes that write the tables, requests handled one at a time by
\* worker 1, while the RADIUS accounting process writes radacct.
FrameNext ==
    \/ \E package \in PackageNames, pool \in Pools :
            create_package(1, BEARER_TOKEN, package, pool)
    \/ \E passwd \in Passwords, expdate \in ExpDates :
            create_user(1, BEARER_TOKEN, "alice", passwd, expdate, "basic")
    \/ delete_user(1, BEARER_TOKEN, "alice")
    \/ TxnExecute(1)
    \/ TxnCommit(1)
    \/ \E nasname \in NasNames : create_nas(1, BEARER_TOKEN, nasname)
    \/ create_nas_insert(1)
    \/ \E username \in UserNames : AcctStart(username)
    \/ \E i \in 1 .. MaxSessions : AcctStop(i)

FrameSpec == Init /\ [][FrameNext]_vars

(***************************************************************************)
(* The three services in lock step on the routes they share.               *)
(***************************************************************************)
SharedRoutes ==
    {"create_user", "get_user", "delete_user", "get_online_users", "get_online_count"}

\* app.py handling request r alone on tables d, the store not failing: the
\* tables it leaves and its answer.
app_py(d, r) ==
    CASE r.route = "create_user" ->
            IF CountWhere(d.radcheck, "username", r.args.username) > 0
            THEN [db |-> d, resp |-> HTTPException(400, "User already exists")]
            ELSE [db |-> Commit(d, Queries(r)), resp |-> Created(r)]
      [] r.route = "get_user" ->
            LET users == UserValues(d.radcheck, r.args.username)
            IN [db |-> d,
                resp |-> IF users = <<>> THEN HTTPException(404, "User not found")
                         ELSE Response(200, [logdata |-> users])]
      [] r.route = "delete_user" ->
            IF CountWhere(d.radcheck, "username", r.args.username) = 0
            THEN [db |-> d, resp |-> HTTPException(404, "User not found")]
            ELSE [db |-> Commit(d, Queries(r)), resp |-> Created(r)]
      [] r.route = "get_online_users" ->
            [db |-> d, resp |-> Response(200, OnlineRows(d.radacct))]
      [] r.route = "get_online_count" ->
            [db |-> d, resp |-> Response(200, [total_online |-> OnlineCount(d.radacct)])]

\* key in dict, dict[key], del dict[key] on a dictionary kept as its items.
In(key, dict, column) == \E i \in 1 .. Len(dict) : dict[i][column] = key
Item(dict, column, key) == dict[CHOOSE i \in 1 .. Len(dict) : dict[i][column] = key]
Del(dict, column, key) == SelectSeq(dict, LAMBDA e : e[column] # key)

\* test_app.py handling request r on its dictionaries: the dictionaries it
\* leaves and its answer.  hash[username] is hash(username) % 10000.
test_app(users, packages, accounting, r, hash) ==
    LET answer(resp) == [mock_users |-> users, mock_accounting |-> accounting, resp |-> resp]
    IN CASE r.route = "create_user" ->
            IF In(r.args.username, users, "username")
            THEN answer(HTTPException(400, "User already exists"))
            ELSE IF ~ In(r.args.package, packages, "package")
            THEN answer(HTTPException(400, "Package does not exist"))
            ELSE [mock_users |-> Append(users,
                        [username |-> r.args.username, passwd |-> r.args.passwd,
                         expdate |-> r.args.expdate, package |-> r.args.package]),
                  mock_accounting |-> accounting,
                  resp |-> StatusResponse(201, "User created successfully")]
         [] r.route = "get_user" ->
            IF ~ In(r.args.username, users, "username")
            THEN answer(HTTPException(404, "User not found"))
            ELSE LET user_data == Item(users, "username", r.args.username)
                 IN answer(Response(200, [logdata |->
                        << [username |-> r.args.username, value |-> user_data.passwd],
                           [username |-> r.args.username, value |-> user_data.expdate] >>]))
         [] r.route = "delete_user" ->
            IF ~ In(r.args.username, users, "username")
            THEN answer(HTTPException(404, "User not found"))
            ELSE [mock_users |-> Del(users, "username", r.args.username),
                  mock_accounting |-> Del(accounting, "username", r.args.username),
                  resp |-> StatusResponse(200, "User deleted successfully")]
         [] r.route = "get_online_users" ->
            answer(Response(200,
                [i \in 1 .. Len(users) |->
                    [radacctid |-> hash[users[i].username],
                     username |-> users[i].username]]))
         [] r.route = "get_online_count" ->
            answer(Response(200, [total_online |-> Len(users)]))

\* app111.py handling request r: it keeps no store.
app111(r) ==
    CASE r.route = "create_user" -> StatusResponse(201, "User created successfully")
      [] r.route = "get_user" ->
            Response(200, [logdata |->
                << [username |-> r.args.username, value |-> "password"],
                   [username |-> r.args.username, value |-> "2025-12-31"] >>])
      [] r.route = "delete_user" -> StatusResponse(200, "User deleted successfully")
      [] r.route = "get_online_users" -> Response(200, <<>>)
      [] r.route = "get_online_count" -> Response(200, [total_online |-> 0])

\* The same authorized request handled by each of the three services.
Handle(r) ==
    \E hash \in [UserNames -> HashValues] :
        LET a == app_py(db, r)
            t == test_app(mock_users, mock_packages, mock_accounting, r, hash)
        IN /\ db' = a.db
           /\ mock_users' = t.mock_users
           /\ mock_accounting' = t.mock_accounting
           /\ answers' = [route |-> r.route, args |-> r.args, app_py |-> a.resp,
                          test_app |-> t.resp, app111 |-> app111(r)]

\* POST /user
shared_create_user(username, passwd, expdate, package) ==
    LET r == Request("create_user", BEARER_TOKEN,
                     [username |-> username, passwd |-> passwd,
                      expdate |-> expdate, package |-> package])
    IN /\ Handle(r)
       /\ UNCHANGED <<req, mock_packages, pooling>>

\* GET /user/{username}
shared_get_user(username) ==
    LET r == Request("get_user", BEARER_TOKEN, [username |-> username])
    IN /\ Handle(r)
       /\ UNCHANGED <<req, mock_packages, pooling>>

\* DELETE /user/{username}
shared_delete_user(username) ==
    LET r == Request("delete_user", BEARER_TOKEN, [username |-> username])
    IN /\ Handle(r)
       /\ UNCHANGED <<req, mock_packages, pooling>>

\* GET /online
shared_get_online_users ==
    LET r == Request("get_online_users", BEARER_TOKEN, NoArgs)
    IN /\ Handle(r)
       /\ UNCHANGED <<req, mock_packages, pooling>>

\* GET /onlinecount
shared_get_online_count ==
    LET r == Request("get_online_count", BEARER_TOKEN, NoArgs)
    IN /\ Handle(r)
       /\ UNCHANGED <<req, mock_packages, pooling>>

\* The stores are equivalent at the start: the package of test_app.py's
\* lifespan is a package of app.py's tables too, and there is no user.
EquivInit ==
    /\ db = Commit(EmptyDb, PackageQueries(basic_package.package, basic_package.pool))
    /\ req = [w \in Workers |-> Idle]
    /\ lifespan
    /\ MySQLConnectionPool

EquivNext ==
    \/ \E username \in UserNames, passwd \in Passwords, expdate \in ExpDates,
          package \in {basic_package.package, "gold"} :
            shared_create_user(username, passwd, expdate, package)
    \/ \E username \in UserNames : shared_get_user(username)
    \/ \E username \in UserNames : shared_delete_user(username)
    \/ shared_get_online_users
    \/ shared_get_online_count

EquivSpec == EquivInit /\ [][EquivNext]_vars
(***************************************************************************)
(* DatabaseManager and the connection pool.                                *)
(***************************************************************************)
\* errors.PoolError, a mysql.connector.Error: the pool's queue is empty.
PoolError == "Failed getting connection; pool exhausted"

\* The message prefix of the HTTPException of a method.
Prefix(method) ==
    IF method = "execute_query" THEN "Database error: " ELSE "Transaction failed: "

\* conn.close() only where the operation returns.
FinallyOnReturn(p, c, failed) == IF c > 0 /\ ~ failed THEN p + c ELSE p

\* finally: if conn: conn.close() -- the connection goes back to the queue.
Finally(p, c, failed) == IF c > 0 THEN p + c ELSE p

\* try: conn = self.get_connection().  With an empty queue the pool raises
\* PoolError at once: except mysql.connector.Error (conn is None, nothing to
\* roll back), HTTPException 500, finally (nothing to close).
Connect(w, method) ==
    /\ dbm[w].pc = "idle"
    /\ IF connection_pool > 0
       THEN /\ connection_pool' = connection_pool - 1
            /\ conn' = [conn EXCEPT ![w] = @ + 1]
            /\ dbm' = [dbm EXCEPT ![w] =
                    [method |-> method, pc |-> "connected", raised |-> NoException]]
       ELSE /\ connection_pool' = Finally(connection_pool, conn[w], TRUE)
            /\ conn' = conn
            /\ dbm' = [dbm EXCEPT ![w] =
                    [method |-> method, pc |-> "idle",
                     raised |-> HTTPException(500, Prefix(method) \o PoolError)]]

\* The statements and the commit, or mysql.connector.Error and the rollback;
\* then finally.
Finish(w, method, failed) ==
    /\ dbm[w].pc = "connected"
    /\ dbm[w].method = method
    /\ connection_pool' = Finally(connection_pool, conn[w], failed)
    /\ conn' = [conn EXCEPT ![w] = connection_pool - connection_pool' + @]
    /\ dbm' = [dbm EXCEPT ![w] =
            [method |-> method, pc |-> "idle",
             raised |-> IF failed THEN HTTPException(500, Prefix(method) \o ServerFault)
                        ELSE NoException]]

execute_query_connect(w) ==
    /\ Connect(w, "execute_query")
    /\ UNCHANGED <<db, req, lockstep, others>>

execute_query_finish(w, failed) ==
    /\ Finish(w, "execute_query", failed)
    /\ UNCHANGED <<db, req, lockstep, others>>

execute_transaction_connect(w) ==
    /\ Connect(w, "execute_transaction")
    /\ UNCHANGED <<db, req, lockstep, others>>

execute_transaction_finish(w, failed) ==
    /\ Finish(w, "execute_transaction", failed)
    /\ UNCHANGED <<db, req, lockstep, others>>

\* A store operation of another request takes its connection.
other_connect ==
    /\ connection_pool > 0
    /\ connection_pool' = connection_pool - 1
    /\ others' = others + 1
    /\ UNCHANGED <<db, req, lockstep, conn, dbm>>

\* A store operation of another request ends: finally.
other_finish ==
    /\ others > 0
    /\ connection_pool' = Finally(connection_pool, 1, FALSE)
    /\ others' = others - 1
    /\ UNCHANGED <<db, req, lockstep, conn, dbm>>

\* Store operations of the workers, among those of other requests.
PoolNext ==
    \/ \E w \in Workers :
        \/ execute_query_connect(w)
        \/ \E failed \in BOOLEAN : execute_query_finish(w, failed)
        \/ execute_transaction_connect(w)
        \/ \E failed \in BOOLEAN : execute_transaction_finish(w, failed)
    \/ other_connect
    \/ other_finish

PoolSpec == Init /\ [][PoolNext]_vars
(***************************************************************************)
(* Properties.                                                             *)
(***************************************************************************)
\* The number of rows of a table with a value in a column.
NumRows(table, column, value) ==
    Cardinality({i \in 1 .. Len(table) : table[i][column] = value})

NumRows2(table, column, value, column2, value2) ==
    Cardinality({i \in 1 .. Len(table) :
                    table[i][column] = value /\ table[i][column2] = value2})

\* Worker w answers a request in this step; the request answered is req'[w].
Answers(w) == req'[w] # req[w] /\ req'[w].pc = "done"

\* The answer is not the store failing under the request.
NoFault(r) ==
    ~ /\ r.resp.status = 500
      /\ r.resp.body.detail \in {"Database error: " \o ServerFault,
                                 "Transaction failed: " \o ServerFault}

\* A package is whole or absent: as many Simultaneous-Use rows as Framed-Pool
\* rows as Acct-Interim-Interval rows, and no other row of its name.
PackageWhole(d, g) ==
    LET n == NumRows(d.radgroupcheck, "groupname", g)
    IN /\ NumRows2(d.radgroupcheck, "groupname", g, "attribute", "Simultaneous-Use") = n
       /\ NumRows2(d.radgroupreply, "groupname", g, "attribute", "Framed-Pool") = n
       /\ NumRows2(d.radgroupreply, "groupname", g, "attribute", "Acct-Interim-Interval") = n
       /\ NumRows(d.radgroupreply, "groupname", g) = 2 * n

\* A user is whole or absent: as many password rows as expiration rows as
\* membership rows.
UserWhole(d, u) ==
    LET n == NumRows(d.radusergroup, "username", u)
    IN /\ NumRows2(d.radcheck, "username", u, "attribute", "Cleartext-Password") = n
       /\ NumRows2(d.radcheck, "username", u, "attribute", "Expiration") = n
       /\ NumRows(d.radcheck, "username", u) = 2 * n

AllOrNothing ==
    /\ \A g \in PackageNames : PackageWhole(db, g)
    /\ \A u \in UserNames : UserWhole(db, u)

\* A step that ends a transaction either commits every statement and answers
\* 200/201, or leaves the tables as they are and answers 500.
WriteEnds(w) ==
    (req[w].pc = "txn" /\ req'[w].pc = "done") =>
        \/ /\ req'[w].resp.status \in {200, 201}
           /\ db' = ExecuteAll(db, Queries(req[w]))
        \/ /\ req'[w].resp.status = 500
           /\ db' = db

\* C1: every multi-statement write is atomic. In every reachable state of the
\* committed tables, with writes of several workers in progress, each package
\* and each user has all the rows of its creation or none; and a write that
\* ends either applied all of its statements, or failed, changed nothing and
\* answered 500.
C1_WritesAtomic ==
    /\ []AllOrNothing
    /\ [][\A w \in Workers : WriteEnds(w)]_vars

\* A user creation failed on its third statement, after two inserts, while the
\* other worker is inside a transaction; no row of the user is in the tables.
C1_Witness ==
    \E w, v \in Workers :
        /\ req[w].pc = "done" /\ req[w].route = "create_user"
        /\ req[w].k = 2 /\ req[w].resp.status = 500
        /\ req[v].pc = "txn" /\ req[v].k >= 1
        /\ NumRows(db.radcheck, "username", req[w].args.username) = 0
        /\ NumRows(db.radusergroup, "username", req[w].args.username) = 0

\* C9: names are unique in every reachable state, also when two creates of one
\* name are handled concurrently: no two packages, users or NAS entries of one
\* name.
C9_NamesUnique ==
    /\ \A g \in PackageNames : NumRows(db.radgroupcheck, "groupname", g) <= 1
    /\ \A u \in UserNames :
        NumRows2(db.radcheck, "username", u, "attribute", "Cleartext-Password") <= 1
    /\ \A n \in NasNames : NumRows(db.nas, "nasname", n) <= 1
\* The table, column and value a create request looks its name up in.
NameTable(r) ==
    CASE r.route = "create_package" -> "radgroupcheck"
      [] r.route = "create_user" -> "radcheck"
      [] r.route = "create_nas" -> "nas"
NameColumn(r) ==
    CASE r.route = "create_package" -> "groupname"
      [] r.route = "create_user" -> "username"
      [] r.route = "create_nas" -> "nasname"
NameOf(r) ==
    CASE r.route = "create_package" -> r.args.package
      [] r.route = "create_user" -> r.args.username
      [] r.route = "create_nas" -> r.args.nasname
Exists(d, r) == NumRows(d[NameTable(r)], NameColumn(r), NameOf(r)) > 0

\* No name has duplicate rows: one Simultaneous-Use row per package, one
\* password row per user, one row per NAS.
NoDuplicateRows ==
    /\ \A g \in PackageNames :
        NumRows(db.radgroupcheck, "groupname", g) > 0 =>
            NumRows2(db.radgroupcheck, "groupname", g, "attribute", "Simultaneous-Use") = 1
    /\ \A u \in UserNames :
        NumRows(db.radcheck, "username", u) > 0 =>
            NumRows2(db.radcheck, "username", u, "attribute", "Cleartext-Password") = 1
    /\ \A n \in NasNames : NumRows(db.nas, "nasname", n) <= 1

\* An answered create: of an existing name, 400 and the store unchanged; of a
\* new name, success and the name exists; on a store failure, the store
\* unchanged.
CreateAnswered(w) ==
    LET r == req'[w]
    IN (Answers(w) /\ r.route \in {"create_package", "create_user", "create_nas"}
            /\ Authorized(r.cred)) =>
        IF ~NoFault(r) THEN r.resp.status = 500 /\ db' = db
        ELSE IF Exists(db, r) THEN r.resp.status = 400 /\ db' = db
        ELSE r.resp.status \in {200, 201} /\ Exists(db', r)

\* C2: for sequential requests, a create (package, user, NAS) of a name that
\* exists is rejected with 400 and leaves the store unchanged; the create of a
\* name that does not exist succeeds unless the store fails; and no name ever
\* has duplicate rows (one Simultaneous-Use row per package).
C2_DuplicateRejected ==
    /\ []NoDuplicateRows
    /\ [][\A w \in Workers : CreateAnswered(w)]_vars

\* The second create of package "basic" was answered 400 and the package has
\* its one group-check row.
C2_Witness ==
    /\ req[1].pc = "done" /\ req[1].route = "create_package"
    /\ req[1].cred = BEARER_TOKEN
    /\ req[1].args.package = "basic"
    /\ req[1].resp.status = 400
    /\ NumRows(db.radgroupcheck, "groupname", "basic") = 1

\* C3: creating a user whose package does not exist fails, and leaves no
\* check-attribute row and no membership row for a username that had none.
C3_UnknownPackageRejected ==
    [][\A w \in Workers :
        LET r == req'[w]
        IN (Answers(w) /\ r.route = "create_user" /\ Authorized(r.cred)
                /\ NumRows(db.radgroupcheck, "groupname", r.args.package) = 0) =>
            /\ r.resp.status \notin {200, 201}
            /\ (NumRows(db.radcheck, "username", r.args.username) = 0 =>
                    NumRows(db'.radcheck, "username", r.args.username) = 0)
            /\ (NumRows(db.radusergroup, "username", r.args.username) = 0 =>
                    NumRows(db'.radusergroup, "username", r.args.username) = 0)]_vars

\* An answered delete: of an absent user, 404 and the store unchanged; of a
\* present user, 200, no row of the user left in radcheck and radusergroup,
\* every other row kept.
DeleteAnswered(w) ==
    LET r == req'[w]
        u == r.args.username
    IN (Answers(w) /\ r.route = "delete_user" /\ Authorized(r.cred)) =>
        IF ~NoFault(r) THEN r.resp.status = 500 /\ db' = db
        ELSE IF NumRows(db.radcheck, "username", u) = 0
        THEN r.resp.status = 404 /\ db' = db
        ELSE /\ r.resp.status = 200
             /\ NumRows(db'.radcheck, "username", u) = 0
             /\ NumRows(db'.radusergroup, "username", u) = 0
             /\ db'.radcheck = SelectSeq(db.radcheck, LAMBDA x : x.username # u)
             /\ db'.radusergroup = SelectSeq(db.radusergroup, LAMBDA x : x.username # u)
             /\ db' = [db EXCEPT !.radcheck = db'.radcheck,
                                 !.radusergroup = db'.radusergroup]

\* The request that follows a successful delete of a user, when it is a get
\* or a delete of the same user, is answered at once, with 404 unless the
\* store fails.
AfterDelete(w) ==
    LET r == req'[w]
    IN (/\ req[w].pc = "done" /\ req[w].route = "delete_user"
        /\ req[w].resp.status = 200
        /\ r # req[w] /\ r.route \in {"get_user", "delete_user"}
        /\ Authorized(r.cred)
        /\ r.args.username = req[w].args.username) =>
            /\ r.pc = "done"
            /\ NoFault(r) => r.resp.status = 404

\* C4: deleting a user that does not exist returns 404 and changes nothing;
\* deleting one that exists removes every radcheck and radusergroup row of the
\* username, and the get or delete of that username that follows returns 404.
C4_DeleteUser ==
    [][\A w \in Workers : DeleteAnswered(w) /\ AfterDelete(w)]_vars

\* "alice" was deleted with 200 while "bob" exists: no row of alice is left,
\* bob's rows are.
C4_Witness ==
    /\ req[1].pc = "done" /\ req[1].route = "delete_user"
    /\ req[1].cred = BEARER_TOKEN
    /\ req[1].args.username = "alice"
    /\ req[1].resp.status = 200
    /\ NumRows(db.radcheck, "username", "alice") = 0
    /\ NumRows(db.radusergroup, "username", "alice") = 0
    /\ NumRows(db.radcheck, "username", "bob") = 2
    /\ NumRows(db.radusergroup, "username", "bob") = 1
Min(a, b) == IF a < b THEN a ELSE b
Max(a, b) == IF a > b THEN a ELSE b

\* The number of packages: the distinct group names of radgroupcheck.
NumPackages(d) ==
    Cardinality({d.radgroupcheck[i].groupname : i \in 1 .. Len(d.radgroupcheck)})

\* The answer r is the page (limit, offset) of the packages of d: count is
\* their number N, data has min(limit, max(0, N - offset)) entries, distinct,
\* the names at positions offset+1 .. of the storage order.
IsPage(r, d) ==
    LET N == NumPackages(d)
        data == r.resp.body.data
        order == DistinctGroupnames(d.radgroupcheck)
    IN /\ r.resp.status = 200
       /\ r.resp.body.count = N
       /\ Len(data) = Min(r.args.limit, Max(0, N - r.args.offset))
       /\ \A i \in 1 .. Len(data) : data[i] = order[r.args.offset + i]
       /\ \A i, j \in 1 .. Len(data) : data[i] = data[j] => i = j

PageAnswered(w) ==
    /\ Answers(w)
    /\ req'[w].route = "get_packages"
    /\ Authorized(req'[w].cred)
    /\ NoFault(req'[w])

OpenSessions(d) ==
    {i \in 1 .. Len(d.radacct) : d.radacct[i].acctstoptime = NULL}

\* C6: /onlinecount answers the number of radacct rows whose stop time is
\* null and /online answers exactly those rows, in the state of the call: a
\* session is counted and listed while its stop time is null and no longer
\* once it is set.
C6_OnlineIsNullStopTime ==
    [][\A w \in Workers :
        LET r == req'[w]
        IN (Answers(w) /\ Authorized(r.cred) /\ NoFault(r)) =>
            /\ r.route = "get_online_count" =>
                /\ r.resp.status = 200
                /\ r.resp.body.total_online = Cardinality(OpenSessions(db'))
            /\ r.route = "get_online_users" =>
                /\ r.resp.status = 200
                /\ Len(r.resp.body) = Cardinality(OpenSessions(db'))
                /\ {r.resp.body[i].radacctid : i \in 1 .. Len(r.resp.body)}
                     = {db'.radacct[i].radacctid : i \in OpenSessions(db')}]_vars

\* /onlinecount answered 1 with two sessions in radacct, one of them stopped.
C6_Witness ==
    /\ req[1].pc = "done" /\ req[1].route = "get_online_count"
    /\ req[1].resp.status = 200
    /\ req[1].resp.body.total_online = 1
    /\ Len(db.radacct) = 2
    /\ Cardinality(OpenSessions(db)) = 1

\* C7: /online/{username} answers 404 when the user has no radcheck row; for a
\* user that has, Online if and only if a radacct row of that username has a
\* null stop time, Offline otherwise.
C7_UserOnlineStatus ==
    [][\A w \in Workers :
        LET r == req'[w]
            u == r.args.username
        IN (Answers(w) /\ r.route = "get_user_online_status"
                /\ Authorized(r.cred) /\ NoFault(r)) =>
            IF NumRows(db.radcheck, "username", u) = 0
            THEN r.resp.status = 404
            ELSE /\ r.resp.status = 200
                 /\ r.resp.body.status =
                        IF \E i \in OpenSessions(db) : db.radacct[i].username = u
                        THEN "Online" ELSE "Offline"]_vars

\* "alice" exists and was answered Offline while a session of "bob" is open.
C7_Witness ==
    /\ req[1].pc = "done" /\ req[1].route = "get_user_online_status"
    /\ req[1].args.username = "alice"
    /\ req[1].resp.status = 200
    /\ req[1].resp.body.status = "Offline"
    /\ NumRows(db.radcheck, "username", "alice") > 0
    /\ \E i \in OpenSessions(db) : db.radacct[i].username = "bob"

\* C8: a protected route called without the bearer token, or with one that is
\* not the configured secret, answers 401 and leaves the store unchanged.
C8_UnauthorizedIs401 ==
    [][\A w \in Workers :
        (Answers(w) /\ req'[w].route \in ProtectedRoutes
                /\ req'[w].cred # BEARER_TOKEN) =>
            /\ req'[w].resp.status = 401
            /\ db' = db]_vars

(***************************************************************************)
(* The three services.                                                     *)
(***************************************************************************)
\* app_py is what the handlers of app.py do step by step: when requests are
\* handled one at a time and the store does not fail, the answer of a shared
\* route and the tables it leaves are those of app_py on the tables before.
SteppedIsAppPy ==
    [][ (/\ Answers(1)
         /\ req'[1].route \in SharedRoutes
         /\ Authorized(req'[1].cred)
         /\ NoFault(req'[1]))
            => /\ req'[1].resp = app_py(db, req'[1]).resp
               /\ db' = app_py(db, req'[1]).db ]_vars

\* Two answers are the same: the status code and the response body.
SameAnswer(a, b) == a.status = b.status /\ a.body = b.body

\* C10: started from equivalent stores and given the same sequence of
\* authorized requests on the routes they share (create/get/delete user,
\* online, onlinecount), app.py, test_app.py and app111.py return the same
\* status code and the same response body at every step.
C10_SameAnswers ==
    /\ SameAnswer(answers.app_py, answers.test_app)
    /\ SameAnswer(answers.app_py, answers.app111)

\* The values of a logdata body.
LogValues(body) == {body.logdata[i].value : i \in 1 .. Len(body.logdata)}

\* Service S answers this lock-step request, a getUser, as the round trip
\* requires after the request before it: after a createUser(username, p, d)
\* in an existing package that S answered 201, 200 with logdata holding p and
\* d; after a deleteUser(username) that S answered 200, 404.
RoundTrip(S) ==
    (/\ answers'.route = "get_user"
     /\ answers.route \in {"create_user", "delete_user"}
     /\ answers.args.username = answers'.args.username)
        => /\ (/\ answers.route = "create_user"
               /\ answers[S].status = 201
               /\ In(answers.args.package, mock_packages, "package"))
                    => /\ answers'[S].status = 200
                       /\ {answers.args.passwd, answers.args.expdate}
                                \subseteq LogValues(answers'[S].body)
           /\ (answers.route = "delete_user" /\ answers[S].status = 200)
                    => answers'[S].status = 404

\* C11: create-then-read round trip: after a package is created and a user
\* is created in it with password p and expiration date d (both 201),
\* getUser for that username returns logdata containing the values p and d;
\* after deleteUser (200) the same getUser returns 404.
C11_RoundTrip ==
    [][\A S \in {"app_py", "test_app", "app111"} : RoundTrip(S)]_vars

(***************************************************************************)
(* The connection pool.                                                    *)
(***************************************************************************)
\* Connections taken from the pool and not given back.
InUse == pool_size - connection_pool

PoolDiscipline ==
    /\ InUse \in 0 .. pool_size
    /\ \A w \in Workers :
        /\ conn[w] <= 1
        /\ dbm[w].pc = "idle" => conn[w] = 0
    /\ InUse = conn[1] + conn[2] + others
    /\ ((\A w \in Workers : dbm[w].pc = "idle") /\ others = 0) => InUse = 0

\* An operation that starts when no connection is left ends in the same step,
\* with the HTTPException 500 of the pool's error.
Refused(w) ==
    (dbm[w].pc = "idle" /\ dbm'[w] # dbm[w] /\ connection_pool = 0)
        => /\ dbm'[w].pc = "idle"
           /\ dbm'[w].raised = HTTPException(500, Prefix(dbm'[w].method) \o PoolError)

\* C12: each store operation acquires at most one connection and releases it
\* when it completes, returning or failing; when no operation is running no
\* connection is in use; the connections in use never exceed the pool size
\* (10); an operation that cannot obtain a connection fails its request
\* instead of waiting.
C12_PoolDiscipline ==
    /\ []PoolDiscipline
    /\ [][\A w \in Workers : Refused(w)]_vars

\* Worker 1 was refused a connection with all ten in use, after worker 2
\* had an operation fail and give its connection back.
C12_Witness ==
    /\ connection_pool = 0
    /\ InUse = pool_size
    /\ dbm[1].raised = HTTPException(500, Prefix(dbm[1].method) \o PoolError)
    /\ dbm[2].raised = HTTPException(500, Prefix(dbm[2].method) \o ServerFault)
    /\ dbm[2].pc = "idle"

(***************************************************************************)
(* Session disconnect.                                                     *)
(***************************************************************************)
\* Worker w answers a disconnect request in this step.
DisconnectAnswered(w) ==
    Answers(w) /\ req'[w].route = "disconnect_session" /\ Authorized(req'[w].cred)

\* C13: an authorized disconnect request makes exactly one attempt of the
\* external command and ends in 200 if and only if the command returned exit
\* code 0 within the timeout, otherwise (non-zero exit, timeout, any other
\* error) in 500; the store is unchanged.
C13_DisconnectOnce ==
    [][\A w \in Workers : DisconnectAnswered(w) =>
            /\ req'[w].k = 1
            /\ req'[w].result \in RadclientOutcomes
            /\ req'[w].resp.status \in {200, 500}
            /\ req'[w].resp.status = 200 <=> req'[w].result = "exit 0"
            /\ db' = db]_vars

\* A disconnect that timed out has been answered 500, with packages stored.
C13_Witness ==
    /\ req[1].route = "disconnect_session"
    /\ req[1].pc = "done"
    /\ req[1].result = "TimeoutExpired"
    /\ req[1].resp.status = 500
    /\ db.radgroupcheck # <<>>

(***************************************************************************)
(* What the API leaves alone.                                              *)
(***************************************************************************)
\* Every row of table s is a row of table t, at the same place.
IsPrefix(s, t) == Len(s) <= Len(t) /\ SubSeq(t, 1, Len(s)) = s

\* C14: no operation of the primary service inserts, updates or deletes
\* accounting rows, and none updates or deletes a package or a NAS entry: a
\* step of a request leaves the accounting table as it is, every package row
\* and NAS row that exists stays, unchanged, and a deleteUser that succeeds
\* leaves the accounting rows of the deleted user in place.
C14_Frame ==
    [][ /\ req' # req => db'.radacct = db.radacct
        /\ IsPrefix(db.radgroupcheck, db'.radgroupcheck)
        /\ IsPrefix(db.radgroupreply, db'.radgroupreply)
        /\ IsPrefix(db.nas, db'.nas) ]_vars

\* alice has been deleted (200) while her open session, a package and a NAS
\* entry are stored.
C14_Witness ==
    /\ req[1].route = "delete_user"
    /\ req[1].pc = "done"
    /\ req[1].resp.status = 200
    /\ \E i \in 1 .. Len(db.radacct) : db.radacct[i].username = "alice"
    /\ db.radgroupcheck # <<>>
    /\ db.nas # <<>>

(***************************************************************************)
(* The rows of a user and of a package.                                    *)
(***************************************************************************)
\* A username with check-attribute rows has exactly one Cleartext-Password
\* row, one Expiration row and one group-membership row; a username without
\* check-attribute rows has no group-membership row.
UserRows(d, u) ==
    IF NumRows(d.radcheck, "username", u) > 0
    THEN /\ NumRows2(d.radcheck, "username", u, "attribute", "Cleartext-Password") = 1
         /\ NumRows2(d.radcheck, "username", u, "attribute", "Expiration") = 1
         /\ NumRows(d.radusergroup, "username", u) = 1
    ELSE NumRows(d.radusergroup, "username", u) = 0

\* The reply rows of package g with an attribute, and with a value of it.
ReplyRows(d, g, attribute) ==
    {i \in 1 .. Len(d.radgroupreply) :
        /\ d.radgroupreply[i].groupname = g
        /\ d.radgroupreply[i].attribute = attribute}

\* A package has exactly one group-check row and exactly two reply rows: its
\* Framed-Pool and Acct-Interim-Interval = 120.
PackageRows(d, g) ==
    NumRows(d.radgroupcheck, "groupname", g) > 0 =>
        /\ NumRows(d.radgroupcheck, "groupname", g) = 1
        /\ NumRows(d.radgroupreply, "groupname", g) = 2
        /\ Cardinality(ReplyRows(d, g, "Framed-Pool")) = 1
        /\ Cardinality(ReplyRows(d, g, "Acct-Interim-Interval")) = 1
        /\ \A i \in ReplyRows(d, g, "Acct-Interim-Interval") :
                d.radgroupreply[i].value = "120"

\* C15: after any sequence of sequential createPackage, createUser and
\* deleteUser requests from an empty store, every username with
\* check-attribute rows has exactly one Cleartext-Password row, one
\* Expiration row and one group-membership row, no username without
\* check-attribute rows has a group-membership row, and every package has
\* exactly one group-check row and exactly two reply rows (Framed-Pool,
\* Acct-Interim-Interval = 120).
C15_RowsOfNames ==
    /\ \A u \in UserNames : UserRows(db, u)
    /\ \A g \in PackageNames : PackageRows(db, g)

\* Both packages and a user are stored after another user has been deleted.
C15_Witness ==
    /\ \A g \in PackageNames : NumRows(db.radgroupcheck, "groupname", g) > 0
    /\ NumRows(db.radcheck, "username", "bob") > 0
    /\ req[1].route = "delete_user"
    /\ req[1].pc = "done"
    /\ req[1].resp.status = 200
    /\ req[1].args.username = "alice"
====
